---------------------------- MODULE Spec2Model ----------------------------
(***************************************************************************)
(* Model of src/src/simulator.py: the AntiGravityField value object and    *)
(* the AntiGravitySimulator (calculate_force, simulate_trajectory,         *)
(* optimize_field).                                                        *)
(*                                                                         *)
(* Representation of the reals.  The program computes in binary64; the     *)
(* model computes in exact decimal / rational arithmetic:                  *)
(*   strength            : integers in 1/2000 (StrengthOne = 1.0)          *)
(*   stability           : integers in hundredths (StabilityOne = 1.0)     *)
(*   frequency, radius   : integers in tenths                              *)
(*   mass, duration, target_height : integers                              *)
(*   time                : integer ticks, TimeUnits ticks per second       *)
(*   force               : integer multiples of 1/ForceUnits               *)
(*   velocity, height    : extended rationals (finite n/d, +-inf, nan)     *)
(* Rounding error of binary64 additions and multiplications is not         *)
(* modelled; the rounding the program asks for (round(x, 4)) is.           *)
(***************************************************************************)
EXTENDS Integers, Sequences, FiniteSets, TLC

(***************************************************************************)
(* Units and program constants                                             *)
(***************************************************************************)
StrengthOne == 2000    \* the value 1.0 of strength
StabilityOne == 100    \* the value 1.0 of stability
TimeUnits == 60     \* ticks per second
Step == 6           \* 0.1 s, the cursor increment
ForceUnits == 10000 \* round(adjusted_force, 4)
StabilityFloor == 80   \* 0.8
DefaultStrength == 1600 \* 0.8
DefaultFrequency == 98 \* 9.8 Hz
DefaultRadius == 50    \* 5.0 m
DefaultStability == 95 \* 0.95
DefaultMass == 1       \* mass: float = 1.0

(***************************************************************************)
(* Bounds of the model                                                     *)
(***************************************************************************)
MaxSteps == 4        \* steps of simulate_trajectory range over 0..MaxSteps
MaxNoArgCalls == 2   \* no-argument calculate_force calls per simulator
MaxThreadCalls == 2  \* no-argument calls per thread in the threaded runs

(***************************************************************************)
(* Inputs                                                                  *)
(***************************************************************************)
Masses == {-10, -5, 0, 1, 5}
\* constructor arguments: strength -0.1, 0.0, 0.8, 1.0, 1.5; stability -0.1,
\* 0.0, 0.95, 1.0, 1.1
Strengths == {-200, 0, 1600, 2000, 3000}
Frequencies == {DefaultFrequency, 10}
Radii == {DefaultRadius, -20}
Stabilities == {-10, 0, 95, 100, 110}
\* the configurations a caller gives the simulator, as <<strength, frequency,
\* radius, stability>>; the last one is rejected
SimFieldArgs ==
  { <<0, 98, 50, 50>>, <<2000, 10, 20, 100>>, <<1600, 10, 20, 50>>,
    <<3000, 98, 50, 95>> }
ExplicitTimes == {0, Step, 30, TimeUnits}   \* 0.0, 0.1, 0.5, 1.0 s
TargetHeights == {-21, -20, -10, 0, 5, 15}
StepCounts == 0..MaxSteps
Durations == {1, 2}
Threads == {1, 2}
SimIds == {1, 2}

NoValue == [kind |-> "none"]

(***************************************************************************)
(* Integer helpers                                                         *)
(***************************************************************************)
Abs(x) == IF x < 0 THEN -x ELSE x

Sign(x) == IF x < 0 THEN -1 ELSE IF x > 0 THEN 1 ELSE 0

Min(a, b) == IF b < a THEN b ELSE a

Max(a, b) == IF b > a THEN b ELSE a

RECURSIVE GCD(_, _)
GCD(a, b) == IF b = 0 THEN a ELSE GCD(b, a % b)

\* n/d (d # 0) rounded to the nearest integer, ties to the even one
RoundHalfEven(n, d) ==
  LET nn == IF d < 0 THEN -n ELSE n
      dd == Abs(d)
      q  == nn \div dd          \* floor
      r  == nn - q * dd         \* 0 <= r < dd
  IN  IF 2 * r < dd THEN q
      ELSE IF 2 * r > dd THEN q + 1
      ELSE IF q % 2 = 0 THEN q ELSE q + 1

(***************************************************************************)
(* sin(2 pi x) for x = j/600 of a cycle, in units of 1/ForceUnits.         *)
(* First quarter wave tabulated, the rest by symmetry.  The table holds 4  *)
(* decimals, so a force of the model can differ from the program's by one  *)
(* unit of its last rounded digit.                                         *)
(***************************************************************************)
QuarterSine ==
  << 0, 105, 209, 314, 419, 523, 628, 732, 837, 941,
     1045, 1149, 1253, 1357, 1461, 1564, 1668, 1771, 1874, 1977,
     2079, 2181, 2284, 2385, 2487, 2588, 2689, 2790, 2890, 2990,
     3090, 3190, 3289, 3387, 3486, 3584, 3681, 3778, 3875, 3971,
     4067, 4163, 4258, 4352, 4446, 4540, 4633, 4726, 4818, 4909,
     5000, 5090, 5180, 5270, 5358, 5446, 5534, 5621, 5707, 5793,
     5878, 5962, 6046, 6129, 6211, 6293, 6374, 6455, 6534, 6613,
     6691, 6769, 6845, 6921, 6997, 7071, 7145, 7218, 7290, 7361,
     7431, 7501, 7570, 7638, 7705, 7771, 7837, 7902, 7965, 8028,
     8090, 8151, 8211, 8271, 8329, 8387, 8443, 8499, 8554, 8607,
     8660, 8712, 8763, 8813, 8862, 8910, 8957, 9003, 9048, 9092,
     9135, 9178, 9219, 9259, 9298, 9336, 9373, 9409, 9444, 9478,
     9511, 9542, 9573, 9603, 9632, 9659, 9686, 9711, 9736, 9759,
     9781, 9803, 9823, 9842, 9860, 9877, 9893, 9907, 9921, 9934,
     9945, 9956, 9965, 9973, 9980, 9986, 9991, 9995, 9998, 9999,
     10000 >>

\* np.sin(2 * np.pi * frequency * time): frequency in tenths of Hz and time
\* in ticks give frequency * time / (10 * TimeUnits) cycles
SinCycles(frequency, t) ==
  LET j == (frequency * t) % (10 * TimeUnits)
  IN  IF j <= 150 THEN QuarterSine[j + 1]
      ELSE IF j <= 300 THEN QuarterSine[300 - j + 1]
      ELSE IF j <= 450 THEN -QuarterSine[j - 300 + 1]
      ELSE -QuarterSine[600 - j + 1]

(***************************************************************************)
(* Extended rationals: the values velocity and height can take.  A finite  *)
(* value is n/d in lowest terms with d > 0; division by a zero mass gives  *)
(* the IEEE results +-inf and nan, which then propagate.                   *)
(***************************************************************************)
Rat(n, d) ==
  LET g == GCD(Abs(n), Abs(d))
      s == IF d < 0 THEN -1 ELSE 1
  IN  [k |-> "fin", n |-> (s * n) \div g, d |-> (s * d) \div g]

Zero == [k |-> "fin", n |-> 0, d |-> 1]

Inf(s) == [k |-> "inf", n |-> s, d |-> 0]

NaN == [k |-> "nan", n |-> 0, d |-> 0]

ExtAdd(x, y) ==
  IF x.k = "nan" \/ y.k = "nan" THEN NaN
  ELSE IF x.k = "inf" /\ y.k = "inf" THEN (IF x.n = y.n THEN x ELSE NaN)
  ELSE IF x.k = "inf" THEN x
  ELSE IF y.k = "inf" THEN y
  ELSE LET l == (x.d \div GCD(x.d, y.d)) * y.d
       IN  Rat(x.n * (l \div x.d) + y.n * (l \div y.d), l)

\* x * (n/d) for a finite factor n/d, d > 0
ExtMulRat(x, n, d) ==
  IF x.k = "nan" THEN NaN
  ELSE IF x.k = "inf" THEN (IF n = 0 THEN NaN ELSE Inf(x.n * Sign(n)))
  ELSE LET g1 == GCD(Abs(x.n), d)
           g2 == GCD(Abs(n), x.d)
           a  == IF g1 = 0 THEN 1 ELSE g1
           b  == IF g2 = 0 THEN 1 ELSE g2
       IN  Rat((x.n \div a) * (n \div b), (x.d \div b) * (d \div a))

(***************************************************************************)
(* AntiGravityField                                                        *)
(***************************************************************************)
\* mutant of PostInit: the stability check left out
PostInitStrengthOnly(strength, stability) ==
  IF ~(0 <= strength /\ strength <= StrengthOne) THEN "ValueError" ELSE "ok"

\* __post_init__: the name of the exception raised, or "ok"
PostInit(strength, stability) ==
  IF ~(0 <= strength /\ strength <= StrengthOne) THEN "ValueError"
  ELSE IF ~(0 <= stability /\ stability <= StabilityOne) THEN "ValueError"
  ELSE "ok"

\* AntiGravityField(strength, frequency, radius, stability): a new object,
\* held by the caller, when the validation passes.  obj tells the objects
\* apart: "field" is the object the simulator's field attribute refers to,
\* "new" an object created by the call.
NewField(strength, frequency, radius, stability) ==
  LET check == PostInit(strength, stability)
  IN  IF check = "ok"
      THEN [outcome |-> "return", error |-> "",
            value |-> [obj |-> "new", strength |-> strength,
                       frequency |-> frequency, radius |-> radius,
                       stability |-> stability]]
      ELSE [outcome |-> "raise", error |-> check, value |-> NoValue]

(***************************************************************************)
(* AntiGravitySimulator                                                    *)
(***************************************************************************)
\* the optional time argument of calculate_force
None == [given |-> FALSE, t |-> 0]

Explicit(t) == [given |-> TRUE, t |-> t]

\* mutant of IsNone: "not time", which also takes an explicit 0 for absent
NotTruthy(arg) == ~arg.given \/ arg.t = 0

\* line 48: time is None
IsNone(arg) == ~arg.given

\* lines 53-60 for 1 + 0.1 * mass # 0: the rounded, mass-adjusted force
Force(m, fld, t) ==
  RoundHalfEven(fld.strength * SinCycles(fld.frequency, t) * fld.stability,
                (StrengthOne \div 10) * StabilityOne * (10 + m))

\* mutant of CursorRead: the cursor read after its increment
CursorAfterStep(cur) == cur + Step

\* line 49: time = self.time, read before line 50 increments the cursor
CursorRead(cur) == cur

\* calculate_force(arg) on a simulator with mass m, field fld and cursor cur:
\* the outcome and the cursor after the call
CalcForce(m, fld, cur, arg) ==
  LET none == IsNone(arg)
      t    == IF none THEN CursorRead(cur) ELSE arg.t
      cur2 == IF none THEN cur + Step ELSE cur
  IN  IF 10 + m = 0
      THEN [outcome |-> "raise", error |-> "ZeroDivisionError",
            value |-> 0, at |-> t, time |-> cur2]
      ELSE [outcome |-> "return", error |-> "",
            value |-> Force(m, fld, t), at |-> t, time |-> cur2]

\* mutant of Linspace: the end point left out (spacing duration / steps)
LinspaceNoEndpoint(duration, steps) ==
  [i \in 1..steps |-> ((i - 1) * duration * TimeUnits) \div steps]

\* line 73: np.linspace(0, duration, steps) in ticks: steps points
\* i * duration / (steps - 1), the last one set to duration; one point 0 for
\* steps = 1.  Exact while steps - 1 divides TimeUnits * duration.

Linspace(duration, steps) ==
  [i \in 1..steps |->
     IF steps = 1 THEN 0
     ELSE IF i = steps THEN duration * TimeUnits
     ELSE ((i - 1) * duration * TimeUnits) \div (steps - 1)]

\* line 81: acceleration = force / self.mass, force a numpy float64
Acceleration(force, m) ==
  IF m = 0 THEN (IF force = 0 THEN NaN ELSE Inf(Sign(force)))
  ELSE Rat(force, ForceUnits * m)

\* mutant of EulerStep: the height advanced with the velocity before its update
EulerStepHeightFirst(v, h, a, duration, steps) ==
  [v |-> ExtAdd(v, ExtMulRat(a, duration, steps)),
   h |-> ExtAdd(h, ExtMulRat(v, duration, steps))]

\* lines 82-83: velocity += acceleration * (duration / steps);
\*              current_height += velocity * (duration / steps)
EulerStep(v, h, a, duration, steps) ==
  LET v2 == ExtAdd(v, ExtMulRat(a, duration, steps))
  IN  [v |-> v2, h |-> ExtAdd(h, ExtMulRat(v2, duration, steps))]

\* lines 78-84: the loop over time_points from index i on
RECURSIVE TrajectoryLoop(_, _, _, _, _, _, _, _, _, _)
TrajectoryLoop(m, fld, cur, ts, i, v, h, hs, duration, steps) ==
  IF i > Len(ts)
  THEN [outcome |-> "return", error |-> "", heights |-> hs, time |-> cur]
  ELSE LET c == CalcForce(m, fld, cur, Explicit(ts[i]))
       IN  IF c.outcome = "raise"
           THEN [outcome |-> "raise", error |-> c.error, heights |-> <<>>,
                 time |-> c.time]
           ELSE LET e == EulerStep(v, h, Acceleration(c.value, m), duration, steps)
                IN  TrajectoryLoop(m, fld, c.time, ts, i + 1, e.v, e.h,
                                   Append(hs, e.h), duration, steps)

\* simulate_trajectory(duration, steps): outcome, the two sequences and the
\* cursor after the call
SimTrajectory(m, fld, cur, duration, steps) ==
  LET ts == Linspace(duration, steps)
      r  == TrajectoryLoop(m, fld, cur, ts, 1, Zero, Zero, <<>>, duration, steps)
  IN  [outcome |-> r.outcome, error |-> r.error,
       times |-> IF r.outcome = "return" THEN ts ELSE <<>>,
       heights |-> r.heights, time |-> r.time]

\* mutant of OptimizedStrength: clamped into [0, 1] from both sides
OptimizedStrengthClamped(strength, target) ==
  Max(0, Min(StrengthOne, (strength * (20 + target)) \div 20))

\* line 99: min(1.0, strength * (1 + target_height * 0.05)); exact for
\* strengths that are multiples of 0.01
OptimizedStrength(strength, target) ==
  Min(StrengthOne, (strength * (20 + target)) \div 20)

\* line 105: max(0.8, self.field.stability)
OptimizedStability(stability) == Max(StabilityFloor, stability)

\* mutant of OptimizeFieldCall: the simulator's own field updated in place
\* and returned
OptimizeInPlace(fld, target) ==
  LET c == NewField(OptimizedStrength(fld.strength, target), fld.frequency,
                    fld.radius, OptimizedStability(fld.stability))
      f == IF c.outcome = "return" THEN [c.value EXCEPT !.obj = "field"] ELSE fld
  IN  [outcome |-> c.outcome, error |-> c.error,
       value |-> IF c.outcome = "return" THEN f ELSE NoValue, field |-> f]

\* optimize_field(target) on a simulator with field fld: the outcome and the
\* simulator's field after the call
OptimizeFieldCall(fld, target) ==
  LET c == NewField(OptimizedStrength(fld.strength, target), fld.frequency,
                    fld.radius, OptimizedStability(fld.stability))
  IN  [outcome |-> c.outcome, error |-> c.error, value |-> c.value,
       field |-> fld]

(***************************************************************************)
(* State                                                                   *)
(*   mass, field, time : the attributes of one AntiGravitySimulator        *)
(*   ret        : the last call made by the caller: its operation,         *)
(*                arguments, outcome and the simulator before the call     *)
(*   memo       : when memo.on, the caller keeps the first                 *)
(*                simulate_trajectory result to compare later ones with    *)
(*   noArgCalls : the number of calculate_force() calls made               *)
(* Threaded runs (two threads calling calculate_force() without a time):   *)
(*   simOf[t]   : the simulator thread t uses                              *)
(*   cursor[s]  : self.time of simulator s                                 *)
(*   pc[t]      : the line thread t is at                                  *)
(*   tlocal[t]  : the local variable time of thread t                      *)
(*   tload[t]   : the value of self.time loaded by the += of line 50       *)
(*   lastEval[t]: the time of the last force thread t returned             *)
(*   calls[t]   : the number of calls thread t has completed               *)
(***************************************************************************)
VARIABLES mass, field, time, ret, memo, noArgCalls,
          simOf, cursor, pc, tlocal, tload, lastEval, calls

simVars == <<mass, field, time, ret, memo, noArgCalls>>

threadVars == <<simOf, cursor, pc, tlocal, tload, lastEval, calls>>

vars == <<mass, field, time, ret, memo, noArgCalls,
          simOf, cursor, pc, tlocal, tload, lastEval, calls>>

\* lines 12-15 and 35: self.field = AntiGravityField()
DefaultField ==
  [obj |-> "field", strength |-> DefaultStrength,
   frequency |-> DefaultFrequency, radius |-> DefaultRadius,
   stability |-> DefaultStability]

NoMemo(on) ==
  [on |-> on, set |-> FALSE, duration |-> 0, steps |-> 0, outcome |-> "",
   times |-> <<>>, heights |-> <<>>]

Snapshot == [mass |-> mass, field |-> field, time |-> time]

ThreadsIdle ==
  /\ simOf = [t \in Threads |-> 1]
  /\ cursor = [s \in SimIds |-> 0]
  /\ pc = [t \in Threads |-> "idle"]
  /\ tlocal = [t \in Threads |-> 0]
  /\ tload = [t \in Threads |-> 0]
  /\ lastEval = [t \in Threads |-> 0]
  /\ calls = [t \in Threads |-> 0]

\* lines 27-36: AntiGravitySimulator(mass)
Init ==
  /\ mass \in Masses
  /\ field = DefaultField
  /\ time = 0
  /\ ret = [op |-> "__init__", arg |-> [mass |-> mass], outcome |-> "return",
            error |-> "", value |-> NoValue, pre |-> NoValue]
  /\ memo = NoMemo(FALSE)
  /\ noArgCalls = 0
  /\ ThreadsIdle

\* the same, with a caller that keeps the first trajectory
InitRepeat ==
  /\ mass \in Masses
  /\ field = DefaultField
  /\ time = 0
  /\ ret = [op |-> "__init__", arg |-> [mass |-> mass], outcome |-> "return",
            error |-> "", value |-> NoValue, pre |-> NoValue]
  /\ memo = NoMemo(TRUE)
  /\ noArgCalls = 0
  /\ ThreadsIdle

\* the caller builds AntiGravityField(strength, frequency, radius, stability)
Construct ==
  \E s \in Strengths, f \in Frequencies, r \in Radii, st \in Stabilities :
    LET c == NewField(s, f, r, st)
    IN  /\ ret' = [op |-> "AntiGravityField",
                   arg |-> [strength |-> s, frequency |-> f, radius |-> r,
                            stability |-> st],
                   outcome |-> c.outcome, error |-> c.error, value |-> c.value,
                   pre |-> NoValue]
        /\ UNCHANGED <<mass, field, time, memo, noArgCalls, threadVars>>

\* the caller runs simulator.field = AntiGravityField(...): the attribute is
\* set when the constructor returns and left alone when it raises
AssignField ==
  \E a \in SimFieldArgs :
    LET c == NewField(a[1], a[2], a[3], a[4])
    IN  /\ field' = IF c.outcome = "return"
                    THEN [c.value EXCEPT !.obj = "field"] ELSE field
        /\ memo' = IF c.outcome = "return" THEN NoMemo(memo.on) ELSE memo
        /\ ret' = [op |-> "assign", arg |-> a, outcome |-> c.outcome,
                   error |-> c.error, value |-> NoValue, pre |-> Snapshot]
        /\ UNCHANGED <<mass, time, noArgCalls, threadVars>>

\* calculate_force(time) and calculate_force()
CalculateForce ==
  \E arg \in {None} \cup {Explicit(t) : t \in ExplicitTimes} :
    LET c == CalcForce(mass, field, time, arg)
    IN  /\ arg = None => noArgCalls < MaxNoArgCalls
        /\ time' = c.time
        /\ noArgCalls' = IF arg = None THEN noArgCalls + 1 ELSE noArgCalls
        /\ ret' = [op |-> "calculate_force", arg |-> arg, outcome |-> c.outcome,
                   error |-> c.error, value |-> [force |-> c.value, at |-> c.at],
                   pre |-> Snapshot]
        /\ UNCHANGED <<mass, field, memo, threadVars>>

\* simulate_trajectory(duration, steps); the caller keeps the first result
SimulateTrajectory ==
  \E d \in Durations, n \in StepCounts :
    LET c == SimTrajectory(mass, field, time, d, n)
    IN  /\ time' = c.time
        /\ ret' = [op |-> "simulate_trajectory",
                   arg |-> [duration |-> d, steps |-> n],
                   outcome |-> c.outcome, error |-> c.error,
                   value |-> [times |-> c.times, heights |-> c.heights],
                   pre |-> Snapshot]
        /\ memo' = IF memo.set \/ ~memo.on THEN memo
                   ELSE [on |-> TRUE, set |-> TRUE, duration |-> d, steps |-> n,
                         outcome |-> c.outcome, times |-> c.times,
                         heights |-> c.heights]
        /\ UNCHANGED <<mass, field, noArgCalls, threadVars>>

\* optimize_field(target_height)
OptimizeField ==
  \E h \in TargetHeights :
    LET c == OptimizeFieldCall(field, h)
    IN  /\ field' = c.field
        /\ ret' = [op |-> "optimize_field", arg |-> [target |-> h],
                   outcome |-> c.outcome, error |-> c.error, value |-> c.value,
                   pre |-> Snapshot]
        /\ UNCHANGED <<mass, time, memo, noArgCalls, threadVars>>

Next ==
  \/ AssignField
  \/ CalculateForce
  \/ SimulateTrajectory
  \/ OptimizeField

Spec == Init /\ [][Next]_vars

\* calculate_force and simulate_trajectory calls in any order, the first
\* trajectory kept
NextRepeat ==
  \/ CalculateForce
  \/ SimulateTrajectory

SpecRepeat == InitRepeat /\ [][NextRepeat]_vars

\* the constructor of AntiGravityField on its own
NextField == Construct

SpecField == Init /\ [][NextField]_vars

(***************************************************************************)
(* Two threads, each calling calculate_force() without a time on the       *)
(* simulator simOf gives it.  Lines 49-50 run as separate bytecodes with   *)
(* no lock: the read of line 49, the load and the store of the += of line  *)
(* 50 can each be separated from the next by steps of the other thread.    *)
(***************************************************************************)
\* mutant of CursorSlot: one cursor shared by all simulators
SharedSlot(s) == 1

\* line 36: self.time, an attribute of the instance
CursorSlot(s) == s

\* two AntiGravitySimulator() instances, the threads assigned to them
InitThreads ==
  /\ mass = DefaultMass
  /\ field = DefaultField
  /\ time = 0
  /\ ret = [op |-> "__init__", arg |-> [mass |-> mass], outcome |-> "return",
            error |-> "", value |-> NoValue, pre |-> NoValue]
  /\ memo = NoMemo(FALSE)
  /\ noArgCalls = 0
  /\ simOf \in [Threads -> SimIds]
  /\ cursor = [s \in SimIds |-> 0]
  /\ pc = [t \in Threads |-> "idle"]
  /\ tlocal = [t \in Threads |-> 0]
  /\ tload = [t \in Threads |-> 0]
  /\ lastEval = [t \in Threads |-> 0]
  /\ calls = [t \in Threads |-> 0]

\* line 48: the call enters with time None
ThreadCall(t) ==
  /\ pc[t] = "idle"
  /\ calls[t] < MaxThreadCalls
  /\ pc' = [pc EXCEPT ![t] = "l49"]
  /\ UNCHANGED <<simVars, simOf, cursor, tlocal, tload, lastEval, calls>>

\* line 49: time = self.time
ThreadReadTime(t) ==
  /\ pc[t] = "l49"
  /\ tlocal' = [tlocal EXCEPT ![t] = cursor[CursorSlot(simOf[t])]]
  /\ pc' = [pc EXCEPT ![t] = "l50load"]
  /\ UNCHANGED <<simVars, simOf, cursor, tload, lastEval, calls>>

\* line 50, self.time += 0.1: the load of self.time
ThreadLoad(t) ==
  /\ pc[t] = "l50load"
  /\ tload' = [tload EXCEPT ![t] = cursor[CursorSlot(simOf[t])]]
  /\ pc' = [pc EXCEPT ![t] = "l50store"]
  /\ UNCHANGED <<simVars, simOf, cursor, tlocal, lastEval, calls>>

\* line 50, self.time += 0.1: the store of the sum
ThreadStore(t) ==
  /\ pc[t] = "l50store"
  /\ cursor' = [cursor EXCEPT ![CursorSlot(simOf[t])] = tload[t] + Step]
  /\ pc' = [pc EXCEPT ![t] = "l53"]
  /\ UNCHANGED <<simVars, simOf, tlocal, tload, lastEval, calls>>

\* lines 53-60: the force at the local time is computed and returned
ThreadReturn(t) ==
  /\ pc[t] = "l53"
  /\ lastEval' = [lastEval EXCEPT ![t] = tlocal[t]]
  /\ calls' = [calls EXCEPT ![t] = calls[t] + 1]
  /\ pc' = [pc EXCEPT ![t] = "idle"]
  /\ UNCHANGED <<simVars, simOf, cursor, tlocal, tload>>

NextThreads ==
  \E t \in Threads :
    \/ ThreadCall(t)
    \/ ThreadReadTime(t)
    \/ ThreadLoad(t)
    \/ ThreadStore(t)
    \/ ThreadReturn(t)

SpecThreads == InitThreads /\ [][NextThreads]_vars

(***************************************************************************)
(* Claims                                                                  *)
(***************************************************************************)
InUnitRange(strength, stability) ==
  /\ 0 <= strength /\ strength <= StrengthOne
  /\ 0 <= stability /\ stability <= StabilityOne

\* C1: constructing a field configuration succeeds and stores the four
\* supplied values exactly when strength and stability are both in [0, 1],
\* whatever the frequency and radius, and fails with the validation error
\* (ValueError in the code), yielding no instance, when either is outside.
FieldConstructionValidated ==
  ret.op = "AntiGravityField" =>
    LET a == ret.arg
    IN  IF InUnitRange(a.strength, a.stability)
        THEN /\ ret.outcome = "return"
             /\ ret.value.strength = a.strength
             /\ ret.value.frequency = a.frequency
             /\ ret.value.radius = a.radius
             /\ ret.value.stability = a.stability
        ELSE /\ ret.outcome = "raise"
             /\ ret.error = "ValueError"
             /\ ret.value = NoValue

\* a construction rejected for its stability alone, strength at the bound 1.0
FieldRejectedForStability ==
  /\ ret.op = "AntiGravityField"
  /\ ret.arg.strength = StrengthOne
  /\ ret.arg.stability > StabilityOne
  /\ ret.arg.radius < 0
  /\ ret.outcome = "raise"

\* C2: a calculate_force call without a time evaluates the force at the
\* cursor held before the call and advances the cursor by 0.1; a call with
\* an explicit time, 0 included, leaves the cursor alone; so the cursor is
\* always 0.1 times the number of no-argument calls made.
CursorCountsNoArgCalls ==
  /\ time = Step * noArgCalls
  /\ ret.op = "calculate_force" =>
        IF ret.arg = None
        THEN /\ time = ret.pre.time + Step
             /\ ret.value.at = ret.pre.time
             /\ ret.outcome = "return" =>
                   ret.value.force = Force(mass, field, ret.pre.time)
        ELSE /\ time = ret.pre.time
             /\ ret.value.at = ret.arg.t

\* a call with the explicit time 0 made after two no-argument calls
ExplicitZeroAfterNoArgCalls ==
  /\ ret.op = "calculate_force"
  /\ ret.arg = Explicit(0)
  /\ ret.outcome = "return"
  /\ noArgCalls = 2
  /\ time = 2 * Step

\* C3: for every target height, optimize_field returns a configuration
\* whose strength is at least the simulator's current strength and at most
\* 1.0 and whose stability is at least 0.8.
OptimizeNeverWeakens ==
  ret.op = "optimize_field" =>
    /\ ret.outcome = "return"
    /\ ret.value.strength >= ret.pre.field.strength
    /\ ret.value.strength <= StrengthOne
    /\ ret.value.stability >= StabilityFloor

\* C4: optimize_field leaves the simulator's field (all four attributes),
\* mass and cursor as they were; the configuration it returns is another
\* object, with the simulator's frequency and radius.
OptimizeLeavesSimulator ==
  ret.op = "optimize_field" =>
    /\ mass = ret.pre.mass
    /\ field = ret.pre.field
    /\ time = ret.pre.time
    /\ ret.outcome = "return" =>
          /\ ret.value.obj # field.obj
          /\ ret.value.frequency = field.frequency
          /\ ret.value.radius = field.radius

\* an optimization that returned other values than the simulator holds, on a
\* simulator with a non-default field and an advanced cursor
OptimizedOtherThanHeld ==
  /\ ret.op = "optimize_field"
  /\ ret.outcome = "return"
  /\ field.frequency # DefaultFrequency
  /\ field.radius # DefaultRadius
  /\ time > 0
  /\ ret.value.strength # field.strength
  /\ ret.value.stability # field.stability

\* C5: simulate_trajectory(duration, steps) returns two sequences of length
\* steps; for steps > 1 the timestamps are duration * i / (steps - 1), the
\* first 0 and the last duration; for steps = 1 the one timestamp is 0.
TrajectoryShape ==
  (ret.op = "simulate_trajectory" /\ ret.outcome = "return") =>
    LET d  == ret.arg.duration
        n  == ret.arg.steps
        ts == ret.value.times
    IN  /\ Len(ts) = n
        /\ Len(ret.value.heights) = n
        /\ n > 1 => /\ \A i \in 1..n :
                          ts[i] * (n - 1) = d * TimeUnits * (i - 1)
                    /\ ts[1] = 0
                    /\ ts[n] = d * TimeUnits
        /\ n = 1 => ts[1] = 0

\* a returned trajectory of four points over two seconds
TrajectoryOfFourPoints ==
  /\ ret.op = "simulate_trajectory"
  /\ ret.outcome = "return"
  /\ ret.arg.steps = 4
  /\ ret.arg.duration = 2
  /\ ret.value.times[2] = 40

\* C6: for every time, the force calculate_force returns lies in [-1, 1],
\* whatever mass the simulator was constructed with.
ForceWithinUnitInterval ==
  (ret.op = "calculate_force" /\ ret.outcome = "return") =>
    /\ -ForceUnits <= ret.value.force
    /\ ret.value.force <= ForceUnits

\* C7: simulate_trajectory leaves the cursor, the mass and the field
\* unchanged, and a call with the duration and steps of an earlier call
\* returns the same sequences, whatever calculate_force and
\* simulate_trajectory calls were made in between.
TrajectoryRepeatable ==
  ret.op = "simulate_trajectory" =>
    /\ mass = ret.pre.mass
    /\ field = ret.pre.field
    /\ time = ret.pre.time
    /\ (memo.set /\ memo.duration = ret.arg.duration
                 /\ memo.steps = ret.arg.steps) =>
          /\ ret.outcome = memo.outcome
          /\ ret.value.times = memo.times
          /\ ret.value.heights = memo.heights

\* a trajectory repeated after no-argument force calls moved the cursor,
\* with finite, nonzero heights
TrajectoryRepeatedAfterForceCalls ==
  /\ ret.op = "simulate_trajectory"
  /\ ret.outcome = "return"
  /\ memo.set
  /\ memo.duration = ret.arg.duration
  /\ memo.steps = ret.arg.steps
  /\ ret.arg.steps >= 2
  /\ noArgCalls >= 1
  /\ time > 0
  /\ ret.value.heights[2].k = "fin"
  /\ ret.value.heights[2].n # 0

\* the number of stores to the cursor thread t has made
StoresMade(t) == IF pc[t] = "l53" THEN calls[t] + 1 ELSE calls[t]

\* C8: with one simulator per thread, each cursor advances by 0.1 per
\* no-argument call in every interleaving, and each call evaluates the force
\* at the cursor its own earlier calls left; with a shared simulator the
\* unguarded read-then-write of the cursor can lose an update (the state
\* LostCursorUpdate is reachable), so the cursor is only bounded by 0.1
\* times the number of calls.
CursorPerThreadExact ==
  /\ simOf[1] # simOf[2] =>
       \A t \in Threads :
         /\ cursor[simOf[t]] = Step * StoresMade(t)
         /\ calls[t] > 0 => lastEval[t] = Step * (calls[t] - 1)
         /\ pc[t] \in {"l50load", "l50store"} => tlocal[t] = Step * calls[t]
  /\ simOf[1] = simOf[2] =>
       cursor[simOf[1]] <= Step * (StoresMade(1) + StoresMade(2))

\* both threads have made one call on the shared simulator, both evaluated
\* the force at cursor 0, and the cursor has advanced by 0.1 only
LostCursorUpdate ==
  /\ simOf[1] = simOf[2]
  /\ \A t \in Threads : pc[t] = "idle" /\ calls[t] = 1 /\ lastEval[t] = 0
  /\ cursor[simOf[1]] = Step

\* the sum of the forces at the first k timestamps, and the sum of those sums
RECURSIVE ForceSum(_, _, _, _)
ForceSum(m, fld, ts, k) ==
  IF k = 0 THEN 0 ELSE ForceSum(m, fld, ts, k - 1) + Force(m, fld, ts[k])

RECURSIVE ForceDoubleSum(_, _, _, _)
ForceDoubleSum(m, fld, ts, i) ==
  IF i = 0 THEN 0
  ELSE ForceDoubleSum(m, fld, ts, i - 1) + ForceSum(m, fld, ts, i)

\* C9: for steps >= 1 and a nonzero mass the heights follow the forward
\* Euler recurrence with the fixed step dt = duration / steps from velocity
\* 0 and height 0: at each timestamp t_i (spaced duration / (steps - 1)) the
\* velocity grows by calculate_force(t_i) / mass * dt and then the height
\* by the new velocity times dt.  In closed form, with F_j the force at t_j,
\* height_i = dt^2 / mass * sum over k <= i of sum over j <= k of F_j.
HeightsFollowEuler ==
  (/\ ret.op = "simulate_trajectory"
   /\ ret.outcome = "return"
   /\ ret.arg.steps >= 1
   /\ mass # 0) =>
    LET d  == ret.arg.duration
        n  == ret.arg.steps
        ts == [i \in 1..n |-> IF n = 1 THEN 0
                              ELSE (d * TimeUnits * (i - 1)) \div (n - 1)]
    IN  /\ Len(ret.value.heights) = n
        /\ \A i \in 1..n :
              ret.value.heights[i] =
                Rat(d * d * ForceDoubleSum(mass, field, ts, i),
                    n * n * mass * ForceUnits)

\* a trajectory of three points on a simulator of mass 5 that ends off the
\* ground
TrajectoryOfThreePoints ==
  /\ ret.op = "simulate_trajectory"
  /\ ret.outcome = "return"
  /\ ret.arg.steps = 3
  /\ mass = 5
  /\ ret.value.heights[3].n # 0
  /\ ret.value.heights[2] # ret.value.heights[3]

\* C10: optimize_field does not return for every target: with a simulator
\* strength > 0 and a target < -20 the computed strength is negative, the
\* construction of the new configuration raises the validation error, and
\* the simulator's field, mass and cursor are as before; for every target
\* >= -20 the call returns a configuration.
OptimizeRaisesBelowMinus20 ==
  ret.op = "optimize_field" =>
    /\ (ret.pre.field.strength > 0 /\ ret.arg.target < -20) =>
          /\ OptimizedStrength(ret.pre.field.strength, ret.arg.target) < 0
          /\ ret.outcome = "raise"
          /\ ret.error = "ValueError"
          /\ mass = ret.pre.mass
          /\ field = ret.pre.field
          /\ time = ret.pre.time
    /\ ret.arg.target >= -20 => ret.outcome = "return"

\* an optimization for the target -21 that raised, the cursor advanced
OptimizeRaised ==
  /\ ret.op = "optimize_field"
  /\ ret.arg.target = -21
  /\ ret.outcome = "raise"
  /\ field.strength = StrengthOne
  /\ time > 0

=============================================================================
